---- MODULE Spec2Model ----
(***************************************************************************)
(* Model of dir-ageism (amble): the sequential walker of syncwalk.rs and   *)
(* the parallel walker of asyncwalk.rs with its two channels and two sink  *)
(* threads, run over one finite directory tree.                            *)
(*                                                                         *)
(* Strings are sequences of one-character strings, so that base-name       *)
(* tests (starts_with, ==) and format!() are computed, not assumed.        *)
(***************************************************************************)
EXTENDS Integers, Sequences, FiniteSets, TLC

\* ---------------------------------------------------------------- bounds
\* largest worker count of the parallel walker (threads: Option<u8>)
MaxThreads == 2
\* number of directories nested between the "skip" directory and its file
NestDepth == 1

\* ------------------------------------------------------------- constants
SECS_PER_DAY == 86400

\* pub const MIN_DAYS: f32 = 0.000_000_1, as a fraction <<numerator, denominator>>
MIN_DAYS == <<1, 10000000>>

\* the system clock, held fixed during a scan (seconds)
Now == 10 * SECS_PER_DAY

\* ------------------------------------------------------------ the tree
\* base names
N_data   == <<"d", "a", "t", "a">>
N_hid    == <<".", "h", "i", "d">>
N_keep   == <<"k", "e", "e", "p">>
N_atxt   == <<"a", ".", "t", "x", "t">>
N_skip   == <<"s", "k", "i", "p">>
N_locked == <<"l", "o", "c", "k">>
N_pipe   == <<"p", "i", "p", "e">>
N_deep   == <<"d", "e", "e", "p">>
N_btxt   == <<"b", ".", "t", "x", "t">>
\* skip-list entries that are near a base name without being equal to it
N_Skip   == <<"S", "k", "i", "p">>
N_ski    == <<"s", "k", "i">>

\* nodes: 1 root, 2 .hid, 3 keep/, 4 keep/a.txt, 5 keep/skip (a file),
\* 6 lock/ (unreadable), 7 pipe (neither file nor directory), 8 skip/,
\* 9 .. 8+NestDepth skip/deep/.../, LastNode skip/deep/.../b.txt
LastNode == 9 + NestDepth
Nodes == 1 .. LastNode
RootNode == CHOOSE n \in Nodes : \A m \in Nodes : n <= m

Parent(n) ==
    CASE n \in {2, 3, 6, 7, 8} -> RootNode
      [] n \in {4, 5}          -> 3
      [] OTHER                 -> n - 1

Kind(n) ==
    CASE n \in {2, 4, 5} -> "file"
      [] n = 7            -> "other"
      [] n = LastNode     -> "file"
      [] OTHER            -> "dir"

\* FALSE for a directory whose listing fails (permission denied)
Readable(n) == n # 6

Files == {n \in Nodes : Kind(n) = "file"}

\* the children of a directory in the order the filesystem enumerates them
RECURSIVE ChildrenFrom(_, _)
ChildrenFrom(d, n) ==
    IF n > LastNode THEN <<>>
    ELSE (IF n # RootNode /\ Parent(n) = d THEN <<n>> ELSE <<>>)
         \o ChildrenFrom(d, n + 1)

Children(d) == IF Kind(d) = "dir" /\ Readable(d) THEN ChildrenFrom(d, 1) ELSE <<>>

RECURSIVE Ancestors(_)
Ancestors(n) == IF n = RootNode THEN {} ELSE {Parent(n)} \cup Ancestors(Parent(n))


Name(n) ==
    CASE n = 2        -> N_hid
      [] n = 3        -> N_keep
      [] n = 4        -> N_atxt
      [] n = 5        -> N_skip
      [] n = 6        -> N_locked
      [] n = 7        -> N_pipe
      [] n = 8        -> N_skip
      [] n = LastNode -> N_btxt
      [] OTHER        -> N_deep

\* ------------------------------------------------------- file metadata
\* A profile is what the filesystem answers for one file: whether
\* metadata() succeeds, and each timestamp as <<t>> or <<>> (unavailable).
T_recent == Now - 3600
T_edge   == Now - 3 * SECS_PER_DAY
T_future == Now + 60

P_recent  == [meta |-> TRUE,  atime |-> <<T_recent>>, ctime |-> <<T_recent>>, mtime |-> <<T_recent>>]
P_old     == [meta |-> TRUE,  atime |-> <<T_edge>>,   ctime |-> <<T_edge>>,   mtime |-> <<T_edge>>]
P_modonly == [meta |-> TRUE,  atime |-> <<T_edge>>,   ctime |-> <<T_edge>>,   mtime |-> <<T_recent>>]
P_future  == [meta |-> TRUE,  atime |-> <<T_recent>>, ctime |-> <<T_recent>>, mtime |-> <<T_future>>]
P_noctime == [meta |-> TRUE,  atime |-> <<T_edge>>,   ctime |-> <<>>,         mtime |-> <<T_recent>>]
P_nometa  == [meta |-> FALSE, atime |-> <<>>,         ctime |-> <<>>,         mtime |-> <<>>]

Profiles == {P_recent, P_old, P_modonly, P_future, P_noctime, P_nometa}

\* ------------------------------------------------------------ strings
\* days is a fraction <<numerator, denominator>> of a day
\* the window rounded down instead of up
Window_floor(days) ==
    LET c == (SECS_PER_DAY * days[1]) \div days[2]
    IN  IF c < 0 THEN 0 ELSE c

\* (SECS_PER_DAY as f64 * f64::from(days)).ceil() as u64: the product is
\* rounded up, and the cast to u64 takes a negative value to 0
Window(days) ==
    LET c == (SECS_PER_DAY * days[1] + days[2] - 1) \div days[2]
    IN  IF c < 0 THEN 0 ELSE c

\* AmbleError's Display: "<Variant>: <cause>"
ErrorToString(kind) ==
    CASE kind = "IoError"         -> <<"IoError", ":", " ", "io">>
      [] kind = "SystemTimeError" -> <<"SystemTimeError", ":", " ", "later">>
      [] kind = "IgnoreError"     -> <<"IgnoreError", ":", " ", "denied">>
      [] OTHER                    -> <<"WalkDir", ":", " ", "denied">>

\* entry.path().to_string_lossy(): the start directory as given, then one
\* "/"-separated base name per level
RECURSIVE PathString(_, _)
PathString(start_dir, n) ==
    IF n = RootNode THEN start_dir
    ELSE PathString(start_dir, Parent(n)) \o <<"/">> \o Name(n)

\* the two arguments of format! exchanged
FormatMatch_swapped(f_name, meta) == meta \o <<" ", "(">> \o f_name \o <<")">>

\* format!("{} ({})", f_name, meta)
FormatMatch(f_name, meta) == f_name \o <<" ", "(">> \o meta \o <<")">>

\* entry.file_name(): the base name; for the root, the last component of
\* the start directory as given
FileName(start_dir, n) == IF n = RootNode THEN start_dir ELSE Name(n)


\* ============================================================ syncwalk.rs

\* is_hidden with the check switched off
is_hidden_unchecked(file_name, check) == FALSE

\* is the DirEntry hidden? If check is false, automatically false.
is_hidden(file_name, check) ==
    IF ~check THEN FALSE
    ELSE /\ Len(file_name) > 0
         /\ file_name[1] = "."
         /\ file_name # <<".", "/">>

\* the for loop of SyncSearch::matches_list from item i on
RECURSIVE SyncMatchesFrom(_, _, _)
SyncMatchesFrom(file_name, list, i) ==
    IF i > Len(list) THEN FALSE
    ELSE IF file_name = list[i] THEN TRUE
    ELSE SyncMatchesFrom(file_name, list, i + 1)

\* matches_list with the emptiness test inverted
Sync_matches_list_inverted(file_name, list) ==
    IF list # <<>> THEN FALSE
    ELSE SyncMatchesFrom(file_name, list, 1)

Sync_matches_list(file_name, list) ==
    IF list = <<>> THEN FALSE
    ELSE SyncMatchesFrom(file_name, list, 1)

\* the closure given to filter_entry: TRUE keeps the entry
SyncFilter(file_name, ignore_hidden, skip) ==
    ~(is_hidden(file_name, ignore_hidden) \/ Sync_matches_list(file_name, skip))

\* entry.metadata()?.modified()?, then modified.elapsed()?.as_secs() < window:
\* "T", "F", or the AmbleError the ? operator returns
Sync_report_modified(p, days) ==
    IF ~p.meta THEN "IoError"
    ELSE IF p.mtime = <<>> THEN "IoError"
    ELSE IF p.mtime[1] > Now THEN "SystemTimeError"
    ELSE IF Now - p.mtime[1] < Window(days) THEN "T" ELSE "F"

Sync_report_accessed(p, days) ==
    IF ~p.meta THEN "IoError"
    ELSE IF p.atime = <<>> THEN "IoError"
    ELSE IF p.atime[1] > Now THEN "SystemTimeError"
    ELSE IF Now - p.atime[1] < Window(days) THEN "T" ELSE "F"

Sync_report_created(p, days) ==
    IF ~p.meta THEN "IoError"
    ELSE IF p.ctime = <<>> THEN "IoError"
    ELSE IF p.ctime[1] > Now THEN "SystemTimeError"
    ELSE IF Now - p.ctime[1] < Window(days) THEN "T" ELSE "F"

IsErr(r) == r \notin {"T", "F", "off"}

\* a build that compiles the block for every target
CreateCompiled_always(on_macos) == TRUE

\* #[cfg(target_os = "macos")] { ... report_created ... }: the block exists
\* in a macos build only
CreateCompiled(on_macos) == on_macos

\* the body of the for loop for one regular file: the three tests in the
\* order access, create (compiled in on macos only), modify, each ending the
\* call with its error; otherwise the annotation
SyncEvaluate(p, c, on_macos) ==
    LET ra == IF c.access THEN Sync_report_accessed(p, c.days) ELSE "off"
        rc == IF c.create /\ CreateCompiled(on_macos) THEN Sync_report_created(p, c.days) ELSE "off"
        rm == IF c.modify THEN Sync_report_modified(p, c.days) ELSE "off"
    IN  IF IsErr(ra) THEN [tag |-> "Err", kind |-> ra, meta |-> <<>>]
        ELSE IF IsErr(rc) THEN [tag |-> "Err", kind |-> rc, meta |-> <<>>]
        ELSE IF IsErr(rm) THEN [tag |-> "Err", kind |-> rm, meta |-> <<>>]
        ELSE [tag |-> "Ok", kind |-> "none",
              meta |-> (IF ra = "T" THEN <<"a">> ELSE <<>>)
                       \o (IF rc = "T" THEN <<"c">> ELSE <<>>)
                       \o (IF rm = "T" THEN <<"m">> ELSE <<>>)]


\* =========================================================== asyncwalk.rs

\* the for loop of AsyncSearch::matches_list from item i on
RECURSIVE AsyncMatchesFrom(_, _, _)
AsyncMatchesFrom(file_name, list, i) ==
    IF i > Len(list) THEN FALSE
    ELSE IF file_name = list[i] THEN TRUE
    ELSE AsyncMatchesFrom(file_name, list, i + 1)

\* AsyncSearch::matches_list: the guard reads !list.is_empty()
Async_matches_list(file_name, list) ==
    IF list # <<>> THEN FALSE
    ELSE AsyncMatchesFrom(file_name, list, 1)

\* report_modified with <= in place of <
Async_report_modified_le(p, days) ==
    IF ~p.meta THEN "IoError"
    ELSE IF p.mtime = <<>> THEN "IoError"
    ELSE IF p.mtime[1] > Now THEN "SystemTimeError"
    ELSE IF Now - p.mtime[1] <= Window(days) THEN "T" ELSE "F"

Async_report_modified(p, days) ==
    IF ~p.meta THEN "IoError"
    ELSE IF p.mtime = <<>> THEN "IoError"
    ELSE IF p.mtime[1] > Now THEN "SystemTimeError"
    ELSE IF Now - p.mtime[1] < Window(days) THEN "T" ELSE "F"

\* entry.metadata().unwrap().accessed()?: a failed metadata() panics
Async_report_accessed(p, days) ==
    IF ~p.meta THEN "Panic"
    ELSE IF p.atime = <<>> THEN "IoError"
    ELSE IF p.atime[1] > Now THEN "SystemTimeError"
    ELSE IF Now - p.atime[1] < Window(days) THEN "T" ELSE "F"

Async_report_created(p, days) ==
    IF ~p.meta THEN "IoError"
    ELSE IF p.ctime = <<>> THEN "IoError"
    ELSE IF p.ctime[1] > Now THEN "SystemTimeError"
    ELSE IF Now - p.ctime[1] < Window(days) THEN "T" ELSE "F"

AsyncOk(state, line) == [tag |-> "Ok", state |-> state, line |-> line, kind |-> "none"]
\* an error answered as if nothing had happened
AsyncErr_swallowed(kind) == AsyncOk("Continue", <<>>)

AsyncErr(kind) ==
    [tag |-> IF kind = "Panic" THEN "Panic" ELSE "Err",
     state |-> "Continue", line |-> <<>>, kind |-> kind]

\* a test that takes everything but a directory for a regular file
Async_is_file_loose(n) == Kind(n) # "dir"

\* entry_type.is_file()
Async_is_file(n) == Kind(n) = "file"

\* AsyncSearch::process_entry. result is [ok, n]: Ok(entry of node n) or the
\* traversal's Err for node n; p is the metadata of n when it is a file.
\* The answer is Ok((state, line as <<>> or <<line>>)), Err(kind) or a panic.
process_entry(result, p, c, on_macos) ==
    IF ~result.ok THEN AsyncErr("IgnoreError")
    ELSE IF Kind(result.n) = "dir" THEN
        IF c.skip # <<>> /\ Async_matches_list(FileName(c.start_dir, result.n), c.skip)
        THEN AsyncOk("Skip", <<>>)
        ELSE AsyncOk("Continue", <<>>)
    ELSE IF Async_is_file(result.n) THEN
        LET f_name == PathString(c.start_dir, result.n)
            ra == IF c.access THEN Async_report_accessed(p, c.days) ELSE "off"
            rc == IF c.create /\ CreateCompiled(on_macos) THEN Async_report_created(p, c.days) ELSE "off"
            rm == IF c.modify THEN Async_report_modified(p, c.days) ELSE "off"
            meta == (IF ra = "T" THEN <<"a">> ELSE <<>>)
                    \o (IF rc = "T" THEN <<"c">> ELSE <<>>)
                    \o (IF rm = "T" THEN <<"m">> ELSE <<>>)
        IN  IF IsErr(ra) THEN AsyncErr(ra)
            ELSE IF IsErr(rc) THEN AsyncErr(rc)
            ELSE IF IsErr(rm) THEN AsyncErr(rm)
            ELSE IF meta # <<>> THEN AsyncOk("Continue", <<FormatMatch(f_name, meta)>>)
            ELSE AsyncOk("Continue", <<>>)
    ELSE AsyncOk("Continue", <<>>)

\* WalkBuilder::hidden(ignore_hidden): the traversal leaves out every child
\* whose base name starts with "." (never the start directory itself)
WalkHidden(file_name, ignore_hidden) ==
    ignore_hidden /\ Len(file_name) > 0 /\ file_name[1] = "."

\* the entries of directory d that the parallel traversal hands to workers
RECURSIVE SeqToSet(_)
SeqToSet(q) == IF q = <<>> THEN {} ELSE {Head(q)} \cup SeqToSet(Tail(q))

\* a traversal that hands on only the first entry of each directory
WalkChildren_firstOnly(d, ignore_hidden) ==
    {k \in SeqToSet(Children(d)) :
        /\ ~WalkHidden(Name(k), ignore_hidden)
        /\ \A j \in SeqToSet(Children(d)) : k <= j}

WalkChildren(d, ignore_hidden) ==
    {k \in SeqToSet(Children(d)) : ~WalkHidden(Name(k), ignore_hidden)}


\* ================================================================ state
VARIABLES
    cfg,        \* the search: start_dir, days, access, create, modify,
                \* ignore_hidden, skip, threads
    probe,      \* one call of a report_* function: its arguments and answer
    macos,      \* cfg(target_os = "macos") of the build
    prof,       \* the metadata of every regular file of the tree
    \* SyncSearch::find_matching
    spc,        \* "ready", "walking", "returned"
    sStack,     \* what the WalkDir iterator still has to yield, in order
    sOut,       \* the lines printed on stdout
    sRes,       \* "none", "Ok", or the kind of the Err returned
    sSeen,      \* entries the loop body received as Ok(e)
    sEval,      \* files whose timestamps the loop body read
    sPruned,    \* entries filter_entry rejected
    \* AsyncSearch::find_matching
    apc,        \* position of the calling thread
    wpc,        \* each worker: "off", "idle", "done", "panicked"
    work,       \* entries waiting for a worker
    tx, tex,    \* the messages in the match channel and in the error channel
    senders,    \* live sender handles: [tx |-> n, tex |-> n]
    sink,       \* the two consumer threads: [out |-> pc, err |-> pc]
    aOut, aErr, \* the lines written to stdout and to stderr
    aRes,       \* "none" or "Ok"
    txSent, texSent, \* every message ever sent on each channel, in order
    aLog,       \* per node: callbacks with Ok, files evaluated, sends
    sendFailed  \* a send returned Err (receiver gone) and unwrap panicked

cfgVars   == <<cfg, macos, prof, probe>>
syncVars  == <<spc, sStack, sOut, sRes, sSeen, sEval, sPruned>>
asyncVars == <<apc, wpc, work, tx, tex, senders, sink, aOut, aErr,
               aRes, txSent, texSent, aLog, sendFailed>>
vars == <<cfg, macos, prof, probe, spc, sStack, sOut, sRes, sSeen, sEval, sPruned,
          apc, wpc, work, tx, tex, senders, sink, aOut, aErr,
          aRes, txSent, texSent, aLog, sendFailed>>

\* ------------------------------------------------------------- inputs
SkipLists == {<<>>, <<N_skip>>, <<N_Skip, N_ski>>}
StartDirs == {N_data, <<".">>}
DaysSet   == {<<3, 1>>}

\* the answers each file of the tree may give
ProfilesOf(n) ==
    CASE n = 2        -> {P_recent, P_future}
      [] n = 4        -> Profiles
      [] n = 5        -> {P_recent, P_old}
      [] OTHER        -> {P_recent, P_nometa}

Workers == 1 .. MaxThreads

\* no report_* function is called on its own
NoProbe == [days |-> <<3, 1>>, stamp |-> <<>>, fn |-> "none", res |-> "none"]

NoLog == [seen |-> 0, eval |-> 0, out |-> 0, err |-> 0]

SyncIdle ==
    /\ spc = "ready" /\ sStack = <<>> /\ sOut = <<>> /\ sRes = "none"
    /\ sSeen = {} /\ sEval = {} /\ sPruned = {}

AsyncIdle ==
    /\ apc = "ready"
    /\ wpc = [w \in Workers |-> "off"]
    /\ work = {}
    /\ tx = <<>> /\ tex = <<>>
    /\ senders = [tx |-> 0, tex |-> 0]
    /\ sink = [out |-> "off", err |-> "off"]
    /\ aOut = <<>> /\ aErr = <<>> /\ aRes = "none"
    /\ txSent = <<>> /\ texSent = <<>>
    /\ aLog = [n \in Nodes |-> NoLog]
    /\ sendFailed = FALSE

\* every search the builder can describe over every tree of the family
InitSync ==
    /\ cfg \in [start_dir : StartDirs, days : DaysSet,
                access : BOOLEAN, create : BOOLEAN, modify : BOOLEAN,
                ignore_hidden : BOOLEAN, skip : SkipLists, threads : {1}]
    /\ macos \in BOOLEAN
    /\ prof \in {f \in [Files -> Profiles] : \A n \in Files : f[n] \in ProfilesOf(n)}
    /\ probe = NoProbe
    /\ SyncIdle
    /\ AsyncIdle


\* ======================================= SyncSearch::find_matching, steps
\* println!("No search criteria specified. Must use access, create, or modify")
Notice == <<"No search criteria specified. Must use access, create, or modify">>

\* a search that starts walking without looking at its criteria
NoCriteria_unchecked(c) == FALSE

NoCriteria(c) == ~(c.access \/ c.create \/ c.modify)

\* an iterator that yields the entries of a directory last first
RECURSIVE SyncItems_reversed(_)
SyncItems_reversed(q) ==
    IF q = <<>> THEN <<>>
    ELSE SyncItems_reversed(Tail(q)) \o <<[n |-> Head(q), err |-> FALSE]>>

RECURSIVE SyncItems(_)
SyncItems(q) ==
    IF q = <<>> THEN <<>>
    ELSE <<[n |-> Head(q), err |-> FALSE]>> \o SyncItems(Tail(q))

\* what WalkDir queues when it yields directory d: its children in order,
\* or the error of a listing that failed
SyncDescend(d) ==
    IF Kind(d) # "dir" THEN <<>>
    ELSE IF ~Readable(d) THEN <<[n |-> d, err |-> TRUE]>>
    ELSE SyncItems(Children(d))

\* lines 181-188: the criteria test, then the iterator over start_dir
SyncStart ==
    /\ spc = "ready"
    /\ IF NoCriteria(cfg)
       THEN /\ spc' = "returned"
            /\ sRes' = "Ok"
            /\ sOut' = Append(sOut, Notice)
            /\ UNCHANGED sStack
       ELSE /\ spc' = "walking"
            /\ sStack' = <<[n |-> RootNode, err |-> FALSE]>>
            /\ UNCHANGED <<sRes, sOut>>
    /\ UNCHANGED <<sSeen, sEval, sPruned>>
    /\ UNCHANGED cfgVars
    /\ UNCHANGED asyncVars

\* a loop that returns the traversal's error instead of skipping it
SyncStep_errReturns ==
    /\ spc = "walking"
    /\ sStack # <<>>
    /\ LET it   == Head(sStack)
           rest == Tail(sStack)
           keep == SyncFilter(FileName(cfg.start_dir, it.n), cfg.ignore_hidden, cfg.skip)
           r    == SyncEvaluate(prof[it.n], cfg, macos)
       IN  IF it.err
           THEN /\ sStack' = rest
                /\ spc' = "returned"
                /\ sRes' = "WalkDir"
                /\ UNCHANGED <<sOut, sSeen, sEval, sPruned>>
           ELSE IF ~keep
           THEN \* filter_entry: not yielded, not descended into
                /\ sStack' = rest
                /\ sPruned' = sPruned \cup {it.n}
                /\ UNCHANGED <<spc, sOut, sRes, sSeen, sEval>>
           ELSE IF Kind(it.n) # "file"
           THEN \* if !e.file_type().is_file() {continue;}
                /\ sStack' = SyncDescend(it.n) \o rest
                /\ sSeen' = sSeen \cup {it.n}
                /\ UNCHANGED <<spc, sOut, sRes, sEval, sPruned>>
           ELSE /\ sStack' = rest
                /\ sSeen' = sSeen \cup {it.n}
                /\ sEval' = sEval \cup {it.n}
                /\ UNCHANGED sPruned
                /\ IF r.tag = "Err"
                   THEN \* the ? operator returns the error from find_matching
                        /\ spc' = "returned"
                        /\ sRes' = r.kind
                        /\ UNCHANGED sOut
                   ELSE /\ sOut' = IF r.meta # <<>>
                                   THEN Append(sOut, FormatMatch(PathString(cfg.start_dir, it.n), r.meta))
                                   ELSE sOut
                        /\ UNCHANGED <<spc, sRes>>
    /\ UNCHANGED cfgVars
    /\ UNCHANGED asyncVars

\* lines 190-231: one turn of the for loop, from the iterator's next entry
\* through filter_entry to the end of the loop body
SyncStep ==
    /\ spc = "walking"
    /\ sStack # <<>>
    /\ LET it   == Head(sStack)
           rest == Tail(sStack)
           keep == SyncFilter(FileName(cfg.start_dir, it.n), cfg.ignore_hidden, cfg.skip)
           r    == SyncEvaluate(prof[it.n], cfg, macos)
       IN  IF it.err
           THEN \* Err(_) => continue
                /\ sStack' = rest
                /\ UNCHANGED <<spc, sOut, sRes, sSeen, sEval, sPruned>>
           ELSE IF ~keep
           THEN \* filter_entry: not yielded, not descended into
                /\ sStack' = rest
                /\ sPruned' = sPruned \cup {it.n}
                /\ UNCHANGED <<spc, sOut, sRes, sSeen, sEval>>
           ELSE IF Kind(it.n) # "file"
           THEN \* if !e.file_type().is_file() {continue;}
                /\ sStack' = SyncDescend(it.n) \o rest
                /\ sSeen' = sSeen \cup {it.n}
                /\ UNCHANGED <<spc, sOut, sRes, sEval, sPruned>>
           ELSE /\ sStack' = rest
                /\ sSeen' = sSeen \cup {it.n}
                /\ sEval' = sEval \cup {it.n}
                /\ UNCHANGED sPruned
                /\ IF r.tag = "Err"
                   THEN \* the ? operator returns the error from find_matching
                        /\ spc' = "returned"
                        /\ sRes' = r.kind
                        /\ UNCHANGED sOut
                   ELSE /\ sOut' = IF r.meta # <<>>
                                   THEN Append(sOut, FormatMatch(PathString(cfg.start_dir, it.n), r.meta))
                                   ELSE sOut
                        /\ UNCHANGED <<spc, sRes>>
    /\ UNCHANGED cfgVars
    /\ UNCHANGED asyncVars

\* line 233: the iterator is exhausted, Ok(())
SyncFinish ==
    /\ spc = "walking"
    /\ sStack = <<>>
    /\ spc' = "returned"
    /\ sRes' = "Ok"
    /\ UNCHANGED <<sStack, sOut, sSeen, sEval, sPruned>>
    /\ UNCHANGED cfgVars
    /\ UNCHANGED asyncVars

SyncNext == SyncStart \/ SyncStep \/ SyncFinish

SpecSync == InitSync /\ [][SyncNext]_vars


\* ====================================== AsyncSearch::find_matching, steps
Active == 1 .. cfg.threads

\* lines 220-252: the criteria test, the two unbounded channels, the two
\* consumer threads. The parallel walker is run once the sequential walker
\* has returned.
AsyncStart ==
    /\ apc = "ready"
    /\ spc = "returned"
    /\ IF NoCriteria(cfg)
       THEN /\ apc' = "returned"
            /\ aRes' = "Ok"
            /\ aOut' = Append(aOut, Notice)
            /\ UNCHANGED <<senders, sink>>
       ELSE /\ apc' = "build"
            /\ senders' = [tx |-> 1, tex |-> 1]
            /\ sink' = [out |-> "running", err |-> "running"]
            /\ UNCHANGED <<aRes, aOut>>
    /\ UNCHANGED <<wpc, work, tx, tex, aErr, txSent, texSent, aLog, sendFailed>>
    /\ UNCHANGED cfgVars
    /\ UNCHANGED syncVars

\* lines 254-275: walker.run calls the outer closure once per thread (each
\* call clones tx and tex), queues the start directory and starts the threads
AsyncRun ==
    /\ apc = "build"
    /\ apc' = "running"
    /\ senders' = [tx |-> senders.tx + cfg.threads, tex |-> senders.tex + cfg.threads]
    /\ wpc' = [w \in Workers |-> IF w \in Active THEN "idle" ELSE "off"]
    /\ work' = {RootNode}
    /\ UNCHANGED <<tx, tex, sink, aOut, aErr, aRes, txSent, texSent, aLog, sendFailed>>
    /\ UNCHANGED cfgVars
    /\ UNCHANGED syncVars

\* the callbacks the traversal makes for entry n: Ok(n), and for a directory
\* it may descend into but cannot list, Err after it
Callbacks(n) ==
    LET first == process_entry([ok |-> TRUE, n |-> n],
                               IF Kind(n) = "file" THEN prof[n] ELSE P_nometa,
                               cfg, macos)
    IN  IF /\ first.tag = "Ok"
           /\ first.state = "Continue"
           /\ Kind(n) = "dir"
           /\ ~Readable(n)
        THEN <<first, process_entry([ok |-> FALSE, n |-> n], P_nometa, cfg, macos)>>
        ELSE <<first>>

\* lines 276-291, the inner closure, applied to the answers rs in turn. The
\* state is what the channels and the worker are left with.
RECURSIVE Deliver(_, _)
Deliver(rs, st) ==
    IF rs = <<>> \/ st.panic THEN st
    ELSE LET r == Head(rs)
         IN  IF r.tag = "Panic"
             THEN [st EXCEPT !.panic = TRUE]
             ELSE IF r.tag = "Ok" /\ r.line = <<>>
             THEN Deliver(Tail(rs), [st EXCEPT !.state = r.state])
             ELSE IF r.tag = "Ok"
             THEN \* tx.send(meta).unwrap()
                  IF sink.out # "running"
                  THEN [st EXCEPT !.panic = TRUE, !.failed = TRUE]
                  ELSE Deliver(Tail(rs),
                               [st EXCEPT !.tx = Append(@, r.line[1]),
                                          !.out = @ + 1,
                                          !.state = r.state])
             ELSE \* tex.send(e.to_string()).unwrap()
                  IF sink.err # "running"
                  THEN [st EXCEPT !.panic = TRUE, !.failed = TRUE]
                  ELSE Deliver(Tail(rs),
                               [st EXCEPT !.tex = Append(@, ErrorToString(r.kind)),
                                          !.err = @ + 1,
                                          !.state = "Continue"])

\* a worker takes a waiting entry n, runs the callback on it and, for a
\* directory the callback let it continue into, queues the children
WorkerVisit(w, n) ==
    /\ wpc[w] = "idle"
    /\ n \in work
    /\ LET st == Deliver(Callbacks(n),
                         [tx |-> <<>>, tex |-> <<>>, out |-> 0, err |-> 0,
                          state |-> "Continue", panic |-> FALSE, failed |-> FALSE])
       IN  /\ tx' = tx \o st.tx
           /\ tex' = tex \o st.tex
           /\ txSent' = txSent \o st.tx
           /\ texSent' = texSent \o st.tex
           /\ aLog' = [aLog EXCEPT ![n] =
                          [seen |-> @.seen + 1,
                           eval |-> @.eval + (IF Kind(n) = "file" THEN 1 ELSE 0),
                           out  |-> @.out + st.out,
                           err  |-> @.err + st.err]]
           /\ sendFailed' = (sendFailed \/ st.failed)
           /\ IF st.panic
              THEN \* the thread unwinds: its closure and both clones are dropped
                   /\ wpc' = [wpc EXCEPT ![w] = "panicked"]
                   /\ senders' = [tx |-> senders.tx - 1, tex |-> senders.tex - 1]
                   /\ work' = work \ {n}
              ELSE /\ work' = IF st.state = "Continue"
                              THEN (work \ {n}) \cup WalkChildren(n, cfg.ignore_hidden)
                              ELSE work \ {n}
                   /\ UNCHANGED <<wpc, senders>>
    /\ UNCHANGED <<apc, sink, aOut, aErr, aRes>>
    /\ UNCHANGED cfgVars
    /\ UNCHANGED syncVars

\* a worker ends when nothing waits and every entry taken has been reported
\* finished; a panicked worker never reports its entry finished
WorkerQuit(w) ==
    /\ wpc[w] = "idle"
    /\ work = {}
    /\ \A v \in Active : wpc[v] # "panicked"
    /\ wpc' = [wpc EXCEPT ![w] = "done"]
    /\ senders' = [tx |-> senders.tx - 1, tex |-> senders.tex - 1]
    /\ UNCHANGED <<apc, work, tx, tex, sink, aOut, aErr, aRes, txSent, texSent, aLog, sendFailed>>
    /\ UNCHANGED cfgVars
    /\ UNCHANGED syncVars


\* a walker.run that returns while its workers are still running
AsyncRunReturn_early ==
    /\ apc = "running"
    /\ apc' = "drop_tx"
    /\ UNCHANGED <<wpc, work, tx, tex, senders, sink, aOut, aErr, aRes,
                   txSent, texSent, aLog, sendFailed>>
    /\ UNCHANGED cfgVars
    /\ UNCHANGED syncVars

\* walker.run returns when every worker thread has ended
AsyncRunReturn ==
    /\ apc = "running"
    /\ \A w \in Active : wpc[w] = "done"
    /\ apc' = "drop_tx"
    /\ UNCHANGED <<wpc, work, tx, tex, senders, sink, aOut, aErr, aRes,
                   txSent, texSent, aLog, sendFailed>>
    /\ UNCHANGED cfgVars
    /\ UNCHANGED syncVars

\* walker.run joins a worker thread that panicked: the panic continues in
\* the calling thread, whose unwinding drops tx and tex and detaches the sinks
AsyncRunPanic ==
    /\ apc = "running"
    /\ \E w \in Active : wpc[w] = "panicked"
    /\ apc' = "panicked"
    /\ senders' = [tx |-> senders.tx - 1, tex |-> senders.tex - 1]
    /\ UNCHANGED <<wpc, work, tx, tex, sink, aOut, aErr, aRes,
                   txSent, texSent, aLog, sendFailed>>
    /\ UNCHANGED cfgVars
    /\ UNCHANGED syncVars

\* line 294: drop(tx)
AsyncDropTx ==
    /\ apc = "drop_tx"
    /\ apc' = "drop_tex"
    /\ senders' = [senders EXCEPT !.tx = @ - 1]
    /\ UNCHANGED <<wpc, work, tx, tex, sink, aOut, aErr, aRes,
                   txSent, texSent, aLog, sendFailed>>
    /\ UNCHANGED cfgVars
    /\ UNCHANGED syncVars

\* line 295: drop(tex)
AsyncDropTex ==
    /\ apc = "drop_tex"
    /\ apc' = "join_out"
    /\ senders' = [senders EXCEPT !.tex = @ - 1]
    /\ UNCHANGED <<wpc, work, tx, tex, sink, aOut, aErr, aRes,
                   txSent, texSent, aLog, sendFailed>>
    /\ UNCHANGED cfgVars
    /\ UNCHANGED syncVars

\* a join that does not wait for the thread
JoinReady_nowait(sink_pc) == TRUE

\* JoinHandle::join returns once the thread has ended
JoinReady(sink_pc) == sink_pc = "done"

\* line 296: stdout_thread.join().unwrap()
AsyncJoinOut ==
    /\ apc = "join_out"
    /\ JoinReady(sink.out)
    /\ apc' = "join_err"
    /\ UNCHANGED <<wpc, work, tx, tex, senders, sink, aOut, aErr, aRes,
                   txSent, texSent, aLog, sendFailed>>
    /\ UNCHANGED cfgVars
    /\ UNCHANGED syncVars

\* lines 297-307: stderr_thread.join().unwrap(), Ok(())
AsyncJoinErr ==
    /\ apc = "join_err"
    /\ JoinReady(sink.err)
    /\ apc' = "returned"
    /\ aRes' = "Ok"
    /\ UNCHANGED <<wpc, work, tx, tex, senders, sink, aOut, aErr,
                   txSent, texSent, aLog, sendFailed>>
    /\ UNCHANGED cfgVars
    /\ UNCHANGED syncVars

\* a receiver that gives up as soon as its channel is empty
EndOfStream_onEmpty(queue, handles) == queue = <<>>

\* the iterator over a Receiver ends when the channel is empty and every
\* sender handle has been dropped
EndOfStream(queue, handles) == queue = <<>> /\ handles = 0

\* a receiver that hands out the newest message first
SinkOutPrint_newestFirst ==
    /\ sink.out = "running"
    /\ tx # <<>>
    /\ aOut' = Append(aOut, tx[Len(tx)])
    /\ tx' = SubSeq(tx, 1, Len(tx) - 1)
    /\ UNCHANGED <<apc, wpc, work, tex, senders, sink, aErr, aRes,
                   txSent, texSent, aLog, sendFailed>>
    /\ UNCHANGED cfgVars
    /\ UNCHANGED syncVars

\* lines 232-236: for dent in rx { println!("{}", dent) }
SinkOutPrint ==
    /\ sink.out = "running"
    /\ tx # <<>>
    /\ aOut' = Append(aOut, Head(tx))
    /\ tx' = Tail(tx)
    /\ UNCHANGED <<apc, wpc, work, tex, senders, sink, aErr, aRes,
                   txSent, texSent, aLog, sendFailed>>
    /\ UNCHANGED cfgVars
    /\ UNCHANGED syncVars

SinkOutEnd ==
    /\ sink.out = "running"
    /\ EndOfStream(tx, senders.tx)
    /\ sink' = [sink EXCEPT !.out = "done"]
    /\ UNCHANGED <<apc, wpc, work, tx, tex, senders, aOut, aErr, aRes,
                   txSent, texSent, aLog, sendFailed>>
    /\ UNCHANGED cfgVars
    /\ UNCHANGED syncVars

\* lines 248-252: for dent in rex { eprintln!("{}", dent.red()) }
SinkErrPrint ==
    /\ sink.err = "running"
    /\ tex # <<>>
    /\ aErr' = Append(aErr, Head(tex))
    /\ tex' = Tail(tex)
    /\ UNCHANGED <<apc, wpc, work, tx, senders, sink, aOut, aRes,
                   txSent, texSent, aLog, sendFailed>>
    /\ UNCHANGED cfgVars
    /\ UNCHANGED syncVars

SinkErrEnd ==
    /\ sink.err = "running"
    /\ EndOfStream(tex, senders.tex)
    /\ sink' = [sink EXCEPT !.err = "done"]
    /\ UNCHANGED <<apc, wpc, work, tx, tex, senders, aOut, aErr, aRes,
                   txSent, texSent, aLog, sendFailed>>
    /\ UNCHANGED cfgVars
    /\ UNCHANGED syncVars

\* the trees both walkers are run on: the metadata of .hid, keep/a.txt,
\* keep/skip and skip/.../b.txt
Tree_skip    == [n \in Files |-> CASE n = 2 -> P_old    [] n = 4 -> P_old
                                   [] OTHER -> P_recent]
Tree_skewed  == [n \in Files |-> CASE n = 2 -> P_recent [] n = 4 -> P_future
                                   [] n = 5 -> P_old    [] OTHER -> P_nometa]
Tree_denied  == [n \in Files |-> CASE n = 4 -> P_nometa [] n = LastNode -> P_recent
                                   [] OTHER -> P_old]
Tree_noctime == [n \in Files |-> CASE n = 2 -> P_recent [] n = 4 -> P_noctime
                                   [] OTHER -> P_old]

Trees == {Tree_skip, Tree_skewed, Tree_denied, Tree_noctime}

\* the searches both walkers are run on, one after the other, over the
\* same tree with the same clock: every tree with the largest worker pool,
\* two of them with a single worker as well
Init ==
    /\ cfg \in [start_dir : {N_data}, days : DaysSet,
                access : BOOLEAN, create : BOOLEAN, modify : BOOLEAN,
                ignore_hidden : BOOLEAN, skip : {<<>>, <<N_skip>>},
                threads : {1, MaxThreads}]
    /\ macos \in BOOLEAN
    /\ (macos => cfg.create)
    /\ prof \in Trees
    /\ (cfg.threads = MaxThreads \/ prof \in {Tree_skip, Tree_denied})
    /\ probe = NoProbe
    /\ SyncIdle
    /\ AsyncIdle

Next ==
    \/ SyncStart
    \/ SyncStep
    \/ SyncFinish
    \/ AsyncStart
    \/ AsyncRun
    \/ \E w \in Active, n \in Nodes : WorkerVisit(w, n)
    \/ \E w \in Active : WorkerQuit(w)
    \/ AsyncRunReturn
    \/ AsyncRunPanic
    \/ AsyncDropTx
    \/ AsyncDropTex
    \/ AsyncJoinOut
    \/ AsyncJoinErr
    \/ SinkOutPrint
    \/ SinkOutEnd
    \/ SinkErrPrint
    \/ SinkErrEnd

Spec == Init /\ [][Next]_vars

\* ---------------------------------------- both walkers, every annotation
\* every way the three timestamps of one file can fall inside or outside
\* the window
StampProfiles ==
    {[meta |-> TRUE, atime |-> <<ta>>, ctime |-> <<tc>>, mtime |-> <<tm>>] :
        ta \in {T_recent, T_edge}, tc \in {T_recent, T_edge}, tm \in {T_recent, T_edge}}

\* both walkers, the parallel one with a single worker, over a tree in
\* which keep/a.txt gives every combination of answers and failures and
\* the file below skip/ always matches
InitAnnot ==
    /\ cfg \in [start_dir : {N_data}, days : DaysSet,
                access : BOOLEAN, create : BOOLEAN, modify : BOOLEAN,
                ignore_hidden : {FALSE}, skip : {<<>>}, threads : {1}]
    /\ macos \in BOOLEAN
    /\ \E p \in StampProfiles \cup {P_future, P_noctime, P_nometa} :
           prof = [n \in Files |-> CASE n = 4 -> p
                                    [] n = LastNode -> P_recent
                                    [] OTHER -> P_old]
    /\ probe = NoProbe
    /\ SyncIdle
    /\ AsyncIdle

SpecAnnot == InitAnnot /\ [][Next]_vars


\* ============================================ the report_* functions alone
\* amble.rs line 88: main goes on only if opt.days > MIN_DAYS
DaysAccepted(days) == days[1] * MIN_DAYS[2] > MIN_DAYS[1] * days[2]

\* thresholds a caller may give: negative, zero, below and above MIN_DAYS,
\* a whole second, fractions of a second, whole days
ProbeDays == {<<0 - 1, 2>>, <<0, 1>>, <<1, 16777216>>, <<1, 4194304>>,
              <<1, 86400>>, <<1, 256>>, <<5, 1024>>, <<1, 2>>, <<3, 1>>}

\* the whole seconds of SECS_PER_DAY * days, rounded down
EdgeSecs(days) == (SECS_PER_DAY * days[1]) \div days[2]

\* timestamps around the edge of the window, one in the future, none at all
ProbeStamps(days) ==
    {<<>>, <<T_future>>, <<Now>>}
    \cup {<<Now - e>> : e \in {x \in {EdgeSecs(days) - 1, EdgeSecs(days),
                                      EdgeSecs(days) + 1, EdgeSecs(days) + 2} : x >= 0}}

\* the metadata of a file all of whose timestamps are stamp
ProbeProfile(stamp) ==
    [meta |-> TRUE, atime |-> stamp, ctime |-> stamp, mtime |-> stamp]

InitAge ==
    /\ cfg = [start_dir |-> N_data, days |-> <<3, 1>>, access |-> TRUE,
              create |-> TRUE, modify |-> TRUE, ignore_hidden |-> FALSE,
              skip |-> <<>>, threads |-> 1]
    /\ macos = FALSE
    /\ prof = [n \in Files |-> P_recent]
    /\ \E d \in ProbeDays : \E t \in ProbeStamps(d) :
           probe = [days |-> d, stamp |-> t, fn |-> "none", res |-> "none"]
    /\ SyncIdle
    /\ AsyncIdle

ProbeCall(fn, res) ==
    /\ probe.fn = "none"
    /\ probe' = [probe EXCEPT !.fn = fn, !.res = res]
    /\ UNCHANGED <<cfg, macos, prof>>
    /\ UNCHANGED syncVars
    /\ UNCHANGED asyncVars

ProbeSyncAccessed  == ProbeCall("sync_accessed",  Sync_report_accessed(ProbeProfile(probe.stamp), probe.days))
ProbeSyncCreated   == ProbeCall("sync_created",   Sync_report_created(ProbeProfile(probe.stamp), probe.days))
ProbeSyncModified  == ProbeCall("sync_modified",  Sync_report_modified(ProbeProfile(probe.stamp), probe.days))
ProbeAsyncAccessed == ProbeCall("async_accessed", Async_report_accessed(ProbeProfile(probe.stamp), probe.days))
ProbeAsyncCreated  == ProbeCall("async_created",  Async_report_created(ProbeProfile(probe.stamp), probe.days))
ProbeAsyncModified == ProbeCall("async_modified", Async_report_modified(ProbeProfile(probe.stamp), probe.days))

NextAge ==
    \/ ProbeSyncAccessed
    \/ ProbeSyncCreated
    \/ ProbeSyncModified
    \/ ProbeAsyncAccessed
    \/ ProbeAsyncCreated
    \/ ProbeAsyncModified

SpecAge == InitAge /\ [][NextAge]_vars


\* ============================================================ properties
\* what the claims speak about, stated on the tree and the configuration

AllMeta == {<<>>, <<"a">>, <<"c">>, <<"m">>, <<"a", "c">>, <<"a", "m">>,
            <<"c", "m">>, <<"a", "c", "m">>}

MatchLine(n, meta) == FormatMatch(PathString(cfg.start_dir, n), meta)

\* some line of q names file n, with any annotation (the empty one included)
EmittedIn(q, n) == \E i \in 1 .. Len(q) : \E meta \in AllMeta : q[i] = MatchLine(n, meta)

EmittedSync(n)  == EmittedIn(sOut, n)
EmittedAsync(n) == EmittedIn(txSent, n)

\* the base name x is one of the configured skip names
InSkip(x) == \E i \in 1 .. Len(cfg.skip) : cfg.skip[i] = x

Below(d) == {n \in Nodes : d \in Ancestors(n)}

\* the predicates the build evaluates for this configuration
Requested == (IF cfg.access THEN {"atime"} ELSE {})
             \cup (IF cfg.create /\ macos THEN {"ctime"} ELSE {})
             \cup (IF cfg.modify THEN {"mtime"} ELSE {})

\* reading timestamp f of a file with metadata p fails
ReadFails(p, f) == ~p.meta \/ p[f] = <<>> \/ p[f][1] > Now

\* predicate f is true of a file with metadata p
PredTrue(p, f) == ~ReadFails(p, f) /\ Now - p[f][1] < Window(cfg.days)

HasReadFailure(n) == \E f \in Requested : ReadFails(prof[n], f)
SomePredTrue(n)   == \E f \in Requested : PredTrue(prof[n], f)

RECURSIVE Count(_, _)
Count(q, m) ==
    IF q = <<>> THEN 0
    ELSE (IF Head(q) = m THEN 1 ELSE 0) + Count(Tail(q), m)

SameBag(q1, q2) == \A m \in SeqToSet(q1) \cup SeqToSet(q2) : Count(q1, m) = Count(q2, m)

StackNodes == {sStack[i].n : i \in 1 .. Len(sStack)}

\* ---------------------------------------------------------------- C1
\* C1: in the parallel walker, with a non-empty skip list, the callback
\* answers Skip for a visited directory exactly when its base name equals a
\* skip name, and nothing below such a directory is visited, evaluated or
\* sent on the match channel.
C1_AsyncPrunesSkipped ==
    \A d \in Nodes :
        (Kind(d) = "dir" /\ cfg.skip # <<>> /\ aLog[d].seen > 0) =>
            /\ (process_entry([ok |-> TRUE, n |-> d], P_nometa, cfg, macos).state = "Skip")
                   <=> InSkip(FileName(cfg.start_dir, d))
            /\ InSkip(FileName(cfg.start_dir, d)) =>
                   \A n \in Below(d) :
                       /\ aLog[n].seen = 0
                       /\ aLog[n].eval = 0
                       /\ ~EmittedAsync(n)

\* ---------------------------------------------------------------- C2
\* C2: once both walkers have returned on the same tree and configuration,
\* the set of lines the sequential walker printed equals the set of lines
\* the parallel walker's match sink printed.
C2_SameMatchSet ==
    (spc = "returned" /\ apc = "returned") => SeqToSet(sOut) = SeqToSet(aOut)

\* ---------------------------------------------------------------- C3
\* C3: in the parallel walker no read failure ends a worker thread or the
\* scan: a file whose metadata or requested timestamp cannot be read gives
\* exactly one message on the error channel and none on the match channel.
C3_AsyncFailureIsolated ==
    /\ apc # "panicked"
    /\ \A w \in Workers : wpc[w] # "panicked"
    /\ \A n \in Files :
           (aLog[n].eval > 0 /\ HasReadFailure(n)) =>
               aLog[n].err = 1 /\ aLog[n].out = 0

\* ---------------------------------------------------------------- C4
\* C4: in the sequential walker an error on one file never halts the
\* traversal: the call does not return an error and, when it returns, no
\* entry is left unvisited.
C4_SyncNeverHalts ==
    /\ sRes \in {"none", "Ok"}
    /\ spc = "returned" => sStack = <<>>


\* ---------------------------------------------------------------- C5
\* C5: both consumer threads exist before any entry is visited, and when
\* find_matching has returned every message sent on either channel has been
\* written by its sink exactly once and nothing is left in a channel.
C5_AllWrittenOnce ==
    /\ (\E n \in Nodes : aLog[n].seen > 0) => (sink.out # "off" /\ sink.err # "off")
    /\ (apc = "returned" /\ ~NoCriteria(cfg)) =>
           /\ tx = <<>> /\ tex = <<>>
           /\ sink.out = "done" /\ sink.err = "done"
           /\ SameBag(aOut, txSent)
           /\ SameBag(aErr, texSent)

\* find_matching has returned after two matches and an error were sent
C5_Witness ==
    /\ apc = "returned"
    /\ Len(txSent) >= 2
    /\ Len(texSent) >= 1

\* ---------------------------------------------------------------- C6
\* C6: a channel has lost all its sender handles only after every worker
\* has ended and the caller has dropped its own handle, and no send ever
\* finds its channel closed or its receiver gone.
C6_CloseAfterWorkers ==
    /\ ~sendFailed
    /\ (sink.out # "off" /\ senders.tx = 0) =>
           /\ \A w \in Active : wpc[w] \in {"done", "panicked"}
           /\ apc \notin {"build", "running", "drop_tx"}
    /\ (sink.err # "off" /\ senders.tex = 0) =>
           /\ \A w \in Active : wpc[w] \in {"done", "panicked"}
           /\ apc \notin {"build", "running", "drop_tx", "drop_tex"}
    /\ (sink.out = "done" => senders.tx = 0)
    /\ (sink.err = "done" => senders.tex = 0)

\* both channels are closed after the largest worker pool sent on both
C6_Witness ==
    /\ cfg.threads = MaxThreads
    /\ senders = [tx |-> 0, tex |-> 0]
    /\ sink.out = "running"
    /\ txSent # <<>>
    /\ texSent # <<>>

\* ---------------------------------------------------------------- C7
\* C7: the parallel walker always runs to its return: whenever no step is
\* possible any more, find_matching has returned.
C7_AsyncTerminates ==
    (spc = "returned" /\ ~ENABLED Next) => apc = "returned"


\* ---------------------------------------------------------------- C8
\* no line with an empty annotation is printed or sent
NoEmptyAnnotation ==
    \A n \in Files :
        /\ \A i \in 1 .. Len(sOut) : sOut[i] # MatchLine(n, <<>>)
        /\ \A i \in 1 .. Len(txSent) : txSent[i] # MatchLine(n, <<>>)

\* C8 as stated: a file either walker evaluated has a match line exactly
\* when at least one requested predicate is true of it, and no match has an
\* empty annotation.
C8_MatchIffSomePredicate ==
    /\ NoEmptyAnnotation
    /\ \A n \in Files :
           /\ n \in sEval => (EmittedSync(n) <=> SomePredTrue(n))
           /\ aLog[n].eval > 0 => (aLog[n].out = 1 <=> SomePredTrue(n))
           /\ aLog[n].eval > 0 => (EmittedAsync(n) <=> SomePredTrue(n))

\* C8 amended: a file either walker evaluated has a match line exactly when
\* no requested timestamp read fails and at least one requested predicate
\* is true of it, and no match has an empty annotation.
C8_MatchIffPredicateAndNoFailure ==
    /\ NoEmptyAnnotation
    /\ \A n \in Files :
           /\ n \in sEval =>
                  (EmittedSync(n) <=> (SomePredTrue(n) /\ ~HasReadFailure(n)))
           /\ aLog[n].eval > 0 =>
                  (aLog[n].out = 1 <=> (SomePredTrue(n) /\ ~HasReadFailure(n)))
           /\ aLog[n].eval > 0 =>
                  (EmittedAsync(n) <=> (SomePredTrue(n) /\ ~HasReadFailure(n)))

\* both walkers evaluated keep/a.txt, whose access time is recent and whose
\* modify time cannot be compared, with both predicates requested; and both
\* printed a match for another file
C8_Witness ==
    /\ prof[4] = P_future
    /\ cfg.access /\ cfg.modify
    /\ 4 \in sEval
    /\ aLog[4].eval = 1
    /\ aLog[4].err = 1
    /\ \E n \in Files : EmittedSync(n) /\ aLog[n].out = 1

\* ---------------------------------------------------------------- C9
\* C9: in the sequential walker a directory whose base name equals a skip
\* name, as a whole and case-sensitively, is rejected before descent, so
\* nothing below it is queued, visited, evaluated or printed; an entry is
\* rejected only by the hidden rule or by such an equality, so an empty skip
\* list rejects nothing.
C9_SyncPrunesSkipped ==
    /\ \A d \in Nodes :
           (Kind(d) = "dir" /\ InSkip(FileName(cfg.start_dir, d))) =>
               /\ d \notin sSeen
               /\ \A n \in Below(d) :
                      /\ n \notin sSeen \cup sEval \cup sPruned \cup StackNodes
                      /\ ~EmittedSync(n)
    /\ \A n \in sPruned :
           \/ InSkip(FileName(cfg.start_dir, n))
           \/ /\ cfg.ignore_hidden
              /\ FileName(cfg.start_dir, n)[1] = "."
    /\ \A n \in Nodes \ {RootNode} :
           (/\ spc = "returned" /\ sRes = "Ok" /\ ~NoCriteria(cfg)
            /\ ~(cfg.ignore_hidden /\ cfg.start_dir[1] = ".")
            /\ ~InSkip(Name(n))
            /\ \A d \in Ancestors(n) : ~InSkip(FileName(cfg.start_dir, d)) /\ Readable(d)
            /\ ~(cfg.ignore_hidden /\ Name(n)[1] = "."))
           => n \in sSeen

\* the walk returned Ok having rejected the directory "skip", whose file
\* would have matched, and printed a match for a file elsewhere
C9_Witness ==
    /\ spc = "returned" /\ sRes = "Ok"
    /\ cfg.skip = <<N_skip>>
    /\ 8 \in sPruned
    /\ cfg.modify /\ prof[LastNode] = P_recent
    /\ EmittedSync(4)


\* --------------------------------------------------------------- C10
HiddenFiles == {n \in Files : Name(n)[1] = "."}
Siblings(h) == {k \in Nodes \ {h, RootNode} : Parent(k) = Parent(h)}

\* C10: with ignore_hidden on, a file whose base name starts with "." is
\* never visited, evaluated or emitted by either walker, whatever its
\* timestamps, while its siblings are still handed to the walker; with
\* ignore_hidden off it is handed to the walker with its siblings and gets
\* a match line under the same condition as any file.
C10_HiddenPolicy ==
    \A h \in HiddenFiles :
        /\ cfg.ignore_hidden =>
               /\ h \notin sSeen \cup sEval
               /\ ~EmittedSync(h)
               /\ h \notin work
               /\ aLog[h].seen = 0
               /\ ~EmittedAsync(h)
               /\ h \in sPruned =>
                      \A k \in Siblings(h) : k \in sSeen \cup sPruned \cup StackNodes
               /\ aLog[Parent(h)].seen > 0 =>
                      \A k \in Siblings(h) : k \in work \/ aLog[k].seen > 0
        /\ ~cfg.ignore_hidden =>
               /\ h \notin sPruned
               /\ Parent(h) \in sSeen => h \in sSeen \cup StackNodes
               /\ h \in sSeen => h \in sEval
               /\ h \in sEval =>
                      (EmittedSync(h) <=> (SomePredTrue(h) /\ ~HasReadFailure(h)))
               /\ aLog[Parent(h)].seen > 0 => (h \in work \/ aLog[h].seen = 1)
               /\ aLog[h].seen > 0 =>
                      /\ aLog[h].eval = 1
                      /\ EmittedAsync(h) <=> (SomePredTrue(h) /\ ~HasReadFailure(h))

\* both walkers returned with ignore_hidden on, having left out .hid, whose
\* modify time is recent, and having emitted its sibling's file keep/a.txt
C10_Witness ==
    /\ cfg.ignore_hidden
    /\ cfg.modify
    /\ prof[2] = P_recent
    /\ 2 \in sPruned
    /\ spc = "returned" /\ sRes = "Ok"
    /\ apc = "returned"
    /\ EmittedSync(4)
    /\ EmittedIn(aOut, 4)

ReachedAsync(n) ==
    /\ n # RootNode => ~WalkHidden(Name(n), cfg.ignore_hidden)
    /\ \A d \in Ancestors(n) :
           /\ Readable(d)
           /\ d # RootNode => ~WalkHidden(Name(d), cfg.ignore_hidden)
           /\ process_entry([ok |-> TRUE, n |-> d], P_nometa, cfg, macos).state = "Continue"

\* walker.run has returned
ScanEnded == apc \in {"drop_tx", "drop_tex", "join_out", "join_err", "returned"} /\ ~NoCriteria(cfg)

LinesOf(q, n) == {i \in 1 .. Len(q) : \E meta \in AllMeta : q[i] = MatchLine(n, meta)}

\* C12: in the parallel walker no entry is ever given to the callback
\* twice and none that the traversal leaves out is given to it; when
\* walker.run has returned every entry the traversal reaches has been given
\* to it exactly once; and with modify alone requested, once find_matching
\* has returned, a reached file whose modify time is within the window has
\* exactly one line on stdout, and that line carries the annotation "m".
C12_ExactlyOnce ==
    /\ \A n \in Nodes :
           /\ aLog[n].seen <= 1
           /\ aLog[n].seen = 1 => ReachedAsync(n)
           /\ ~(n \in work /\ aLog[n].seen = 1)
    /\ ScanEnded => \A n \in Nodes : ReachedAsync(n) => aLog[n].seen = 1
    /\ (apc = "returned" /\ cfg.modify /\ ~cfg.access /\ ~cfg.create) =>
           \A n \in Files :
               (ReachedAsync(n) /\ PredTrue(prof[n], "mtime")) =>
                   /\ Cardinality(LinesOf(aOut, n)) = 1
                   /\ Count(aOut, MatchLine(n, <<"m">>)) = 1

\* find_matching returned with the largest worker pool and modify alone
\* requested, having printed keep/skip and the file below skip/ once each
C12_Witness ==
    /\ apc = "returned"
    /\ cfg.threads = MaxThreads
    /\ cfg.modify /\ ~cfg.access /\ ~cfg.create
    /\ Count(aOut, MatchLine(5, <<"m">>)) = 1
    /\ Count(aOut, MatchLine(LastNode, <<"m">>)) = 1

\* --------------------------------------------------------------- C13
\* 'a' if access was requested and is true, then 'c' for create (where the
\* build evaluates it), then 'm' for modify
ExpectedAnnot(n) ==
    (IF "atime" \in Requested /\ PredTrue(prof[n], "atime") THEN <<"a">> ELSE <<>>)
    \o (IF "ctime" \in Requested /\ PredTrue(prof[n], "ctime") THEN <<"c">> ELSE <<>>)
    \o (IF "mtime" \in Requested /\ PredTrue(prof[n], "mtime") THEN <<"m">> ELSE <<>>)

\* "<path> (<annotation>)"
ExpectedLine(n) ==
    PathString(cfg.start_dir, n) \o <<" ">> \o <<"(">> \o ExpectedAnnot(n) \o <<")">>

WellFormed(q) ==
    \A i \in 1 .. Len(q) :
        \/ q[i] = Notice
        \/ \E n \in Files : ExpectedAnnot(n) # <<>> /\ q[i] = ExpectedLine(n)

\* C13: every match line the sequential walker prints, and every match
\* line the parallel walker sends or prints, is the path of a file, a
\* space, and between parentheses the letters a, c, m of the predicates
\* that are true of that file, in that order and with nothing between them.
C13_AnnotationOrder ==
    /\ WellFormed(sOut)
    /\ WellFormed(txSent)
    /\ WellFormed(aOut)

\* on macos with all three predicates requested, both walkers printed
\* keep/a.txt, whose creation time alone is outside the window, with "am",
\* and the file below skip/ with "acm"
C13_Witness ==
    /\ macos /\ cfg.access /\ cfg.create /\ cfg.modify
    /\ ExpectedAnnot(4) = <<"a", "m">>
    /\ ExpectedAnnot(LastNode) = <<"a", "c", "m">>
    /\ \E i \in 1 .. Len(sOut) : sOut[i] = ExpectedLine(4)
    /\ \E i \in 1 .. Len(aOut) : aOut[i] = ExpectedLine(4)
    /\ \E i \in 1 .. Len(aOut) : aOut[i] = ExpectedLine(LastNode)

\* --------------------------------------------------------------- C14
\* directories whose listing fails
Unlistable == {d \in Nodes : Kind(d) = "dir" /\ ~Readable(d)}

\* no reached file can make report_accessed panic
NoPanicInput == ~(cfg.access /\ \E n \in Files : ReachedAsync(n) /\ ~prof[n].meta)

\* some thread of the parallel walker can take a step: the caller is not
\* waiting, or what it waits for has happened; a worker has an entry to take
\* or may end; a sink has a message to print or sees its channel closed
AsyncCanStep ==
    \/ apc = "ready" /\ spc = "returned"
    \/ apc \in {"build", "drop_tx", "drop_tex"}
    \/ apc = "running" /\ \A w \in Active : wpc[w] = "done"
    \/ apc = "running" /\ \E w \in Active : wpc[w] = "panicked"
    \/ apc = "join_out" /\ JoinReady(sink.out)
    \/ apc = "join_err" /\ JoinReady(sink.err)
    \/ \E w \in Active : wpc[w] = "idle" /\ work # {}
    \/ \E w \in Active : wpc[w] = "idle" /\ \A v \in Active : wpc[v] # "panicked"
    \/ sink.out = "running" /\ (tx # <<>> \/ EndOfStream(tx, senders.tx))
    \/ sink.err = "running" /\ (tex # <<>> \/ EndOfStream(tex, senders.tex))

\* C14: in the parallel walker a directory that cannot be listed gets,
\* when it is visited, exactly one message on the error channel and none on
\* the match channel; once walker.run has returned every reached file with
\* a true predicate and no failing read has been sent as a match, the
\* siblings of that directory included; find_matching returns Ok although
\* the error was reported; and when no file of the tree can make a worker
\* panic, the run cannot stop anywhere but at that return.
C14_TraversalErrorIsolated ==
    /\ \A d \in Unlistable :
           /\ aLog[d].seen = 1 => (aLog[d].err = 1 /\ aLog[d].out = 0)
           /\ aLog[d].seen = 0 => (aLog[d].err = 0 /\ aLog[d].out = 0)
           /\ \A n \in Below(d) : aLog[n].seen = 0
    /\ Count(texSent, ErrorToString("IgnoreError"))
           = Cardinality({d \in Unlistable : aLog[d].seen = 1})
    /\ ScanEnded =>
           \A n \in Files :
               (ReachedAsync(n) /\ SomePredTrue(n) /\ ~HasReadFailure(n)) =>
                   Count(txSent, MatchLine(n, ExpectedAnnot(n))) = 1
    /\ (apc = "returned" /\ ~NoCriteria(cfg)) =>
           /\ aRes = "Ok"
           /\ \A d \in Unlistable : ReachedAsync(d) => aLog[d].err = 1
           /\ SameBag(aErr, texSent)
    /\ NoPanicInput => (apc # "panicked" /\ \A w \in Workers : wpc[w] # "panicked")
    /\ (NoPanicInput /\ spc = "returned" /\ ~AsyncCanStep) =>
           (apc = "returned" /\ aRes = "Ok")

\* find_matching returned Ok with the largest worker pool after lock/ was
\* reported once on stderr, and .hid and keep/a.txt, beside it, were printed
C14_Witness ==
    /\ apc = "returned" /\ aRes = "Ok"
    /\ cfg.threads = MaxThreads
    /\ aLog[6].err = 1
    /\ Count(aErr, ErrorToString("IgnoreError")) = 1
    /\ EmittedIn(aOut, 2)
    /\ EmittedIn(aOut, 4)

\* --------------------------------------------------------------- C15
WithC == {meta \in AllMeta : \E i \in 1 .. Len(meta) : meta[i] = "c"}

NoCreateLetter(q) ==
    \A i \in 1 .. Len(q) : \A n \in Files : \A meta \in WithC : q[i] # MatchLine(n, meta)

\* a requested access or modify read of file n fails
OtherReadFails(n) ==
    \/ cfg.access /\ ReadFails(prof[n], "atime")
    \/ cfg.modify /\ ReadFails(prof[n], "mtime")

\* what holds of every scan of a build without the create block: no line
\* carries 'c', and every error comes from an access or modify read
CreateNeverRead ==
    /\ NoCreateLetter(sOut) /\ NoCreateLetter(txSent) /\ NoCreateLetter(aOut)
    /\ \A n \in Files : aLog[n].err > 0 => OtherReadFails(n)
    /\ sRes \notin {"none", "Ok"} => \E n \in sEval : OtherReadFails(n)

OnlyCreate == cfg.create /\ ~cfg.access /\ ~cfg.modify

\* C15 as stated: in a build that is not for macos no annotation contains
\* 'c', no error comes from a creation-time read, and a scan with create
\* alone emits no match and no error at all.
C15_CreateDisabled ==
    ~macos =>
        /\ CreateNeverRead
        /\ OnlyCreate =>
               /\ sOut = <<>> /\ sRes \in {"none", "Ok"}
               /\ txSent = <<>> /\ aOut = <<>>
               /\ texSent = <<>> /\ aErr = <<>>

\* C15 amended: in a build that is not for macos no annotation contains
\* 'c', no error comes from a creation-time read, and a scan with create
\* alone emits no match and no error for any file; the only messages on
\* the error channel are those of the traversal itself.
C15_CreateDisabledFiles ==
    ~macos =>
        /\ CreateNeverRead
        /\ OnlyCreate =>
               /\ sOut = <<>> /\ sRes \in {"none", "Ok"}
               /\ txSent = <<>> /\ aOut = <<>>
               /\ \A n \in Files : aLog[n].err = 0 /\ aLog[n].out = 0
               /\ \A i \in 1 .. Len(texSent) : texSent[i] = ErrorToString("IgnoreError")
               /\ apc # "panicked"

\* both walkers returned Ok in a build that is not for macos, with create
\* alone requested, after visiting keep/a.txt, whose creation time cannot
\* be read, and the file below skip/, whose creation time is recent
C15_Witness ==
    /\ ~macos /\ OnlyCreate
    /\ spc = "returned" /\ sRes = "Ok"
    /\ apc = "returned" /\ aRes = "Ok"
    /\ prof[4] = P_noctime
    /\ prof[LastNode] = P_recent
    /\ {4, LastNode} \subseteq sEval
    /\ aLog[4].eval = 1 /\ aLog[LastNode].eval = 1

\* --------------------------------------------------------------- C16
\* C16: what a sink of the parallel walker has written is, message for
\* message and in the same order, the beginning of what was sent on its
\* channel, and what is still in the channel is the rest, in send order.
\* Nothing ties the two sinks together: whenever both channels hold a
\* message both sinks are free to write next.
C16_SinkFifo ==
    ~NoCriteria(cfg) =>
        /\ txSent = aOut \o tx
        /\ texSent = aErr \o tex
        /\ (tx # <<>> /\ tex # <<>>) =>
               /\ sink.out = "running"
               /\ sink.err = "running"

\* with the largest worker pool two matches and an error have been sent:
\* the first match is written, the second match and the error wait in
\* their channels, and either sink may write next
C16_Witness ==
    /\ cfg.threads = MaxThreads
    /\ Len(txSent) = 2 /\ txSent[1] # txSent[2]
    /\ aOut = <<txSent[1]>>
    /\ tx = <<txSent[2]>>
    /\ tex # <<>> /\ aErr = <<>>
    /\ sink.out = "running" /\ sink.err = "running"

\* --------------------------------------------------------------- C17
\* the phase of a call of AsyncSearch::find_matching, by the position of
\* the calling thread: Idle before the channels exist, Scanning up to the
\* return of walker.run (a call that panics inside walker.run never gets
\* further), Draining from drop(tx) to the second join, Done at the return
Phase(pc) ==
    CASE pc = "ready" -> 0
      [] pc \in {"build", "running", "panicked"} -> 1
      [] pc \in {"drop_tx", "drop_tex", "join_out", "join_err"} -> 2
      [] OTHER -> 3

\* what each phase is said to be
C17_Phases ==
    /\ Phase(apc) = 0 => (senders = [tx |-> 0, tex |-> 0] /\ sink = [out |-> "off", err |-> "off"])
    /\ apc \in {"build", "running"} =>
           /\ senders.tx >= 1 /\ senders.tex >= 1
           /\ sink = [out |-> "running", err |-> "running"]
    /\ Phase(apc) = 2 => (work = {} /\ \A w \in Active : wpc[w] = "done")
    /\ (Phase(apc) = 3 /\ ~NoCriteria(cfg)) =>
           /\ senders = [tx |-> 0, tex |-> 0]
           /\ tx = <<>> /\ tex = <<>>
           /\ sink = [out |-> "done", err |-> "done"]

\* what each step may do to the phase
C17_Step ==
    /\ Phase(apc') >= Phase(apc)
    /\ Phase(apc') > Phase(apc) + 1 => (NoCriteria(cfg) /\ apc = "ready")
    /\ (Phase(apc) < 2 /\ Phase(apc') = 2) =>
           (work = {} /\ \A w \in Active : wpc[w] = "done")
    /\ (Phase(apc) < 3 /\ Phase(apc') = 3 /\ ~NoCriteria(cfg)) =>
           /\ senders = [tx |-> 0, tex |-> 0]
           /\ sink = [out |-> "done", err |-> "done"]
    /\ Phase(apc) = 3 => UNCHANGED asyncVars

\* C17: a call of AsyncSearch::find_matching goes through Idle, Scanning,
\* Draining and Done in that order and never back; it enters Draining only
\* when every worker has ended, enters Done only when both channels are
\* closed and both sinks have ended, and once in Done nothing of it
\* changes any more.
C17_Lifecycle == [](C17_Phases) /\ [][C17_Step]_vars

\* a call with the largest worker pool is in Done after both sinks wrote
C17_Witness ==
    /\ Phase(apc) = 3 /\ ~NoCriteria(cfg)
    /\ cfg.threads = MaxThreads
    /\ \A w \in Active : wpc[w] = "done"
    /\ aOut # <<>> /\ aErr # <<>>

\* --------------------------------------------------------------- C18
\* the sequential traversal reaches entry n: neither n nor a directory
\* above it is rejected by filter_entry, and every directory above it is
\* listed
ReachedSync(n) ==
    /\ SyncFilter(FileName(cfg.start_dir, n), cfg.ignore_hidden, cfg.skip)
    /\ \A d \in Ancestors(n) :
           /\ Readable(d)
           /\ SyncFilter(FileName(cfg.start_dir, d), cfg.ignore_hidden, cfg.skip)

\* the reached files at which a requested read fails; the enumeration is
\* depth-first in the order of the node numbers
SyncFailing == {f \in Files : ReachedSync(f) /\ HasReadFailure(f)}

\* the match lines that the tree and the configuration alone determine
SyncExpected ==
    {ExpectedLine(n) : n \in {k \in Files : /\ ReachedSync(k)
                                            /\ SomePredTrue(k)
                                            /\ ~HasReadFailure(k)
                                            /\ \A f \in SyncFailing : k < f}}

AsyncExpected ==
    {ExpectedLine(n) : n \in {k \in Files : /\ ReachedAsync(k)
                                            /\ SomePredTrue(k)
                                            /\ ~HasReadFailure(k)}}

\* C18: the set of match lines a scan has printed when it has come to
\* rest is determined by the tree and the configuration alone: for the
\* sequential walker, and for the parallel walker whatever the number of
\* workers and the order of their steps, so that two scans in immediate
\* succession (same tree, same clock) print the same set.
C18_MatchSetDetermined ==
    /\ (spc = "returned" /\ ~NoCriteria(cfg)) => SeqToSet(sOut) = SyncExpected
    /\ (spc = "returned" /\ ~NoCriteria(cfg) /\ ~AsyncCanStep) =>
           SeqToSet(aOut) = AsyncExpected

\* the same statement for the scans in which no worker can panic
MatchSetDeterminedWithoutPanic ==
    /\ (spc = "returned" /\ ~NoCriteria(cfg)) => SeqToSet(sOut) = SyncExpected
    /\ (spc = "returned" /\ ~NoCriteria(cfg) /\ ~AsyncCanStep /\ NoPanicInput) =>
           SeqToSet(aOut) = AsyncExpected

\* --------------------------------------------------------------- C19
\* the depth-first enumeration of the entries q and of everything below
\* them: each entry, then what is below it, then its next sibling
RECURSIVE Preorder(_)
Preorder(q) ==
    IF q = <<>> THEN <<>>
    ELSE <<Head(q)>> \o Preorder(Children(Head(q))) \o Preorder(Tail(q))

\* the match lines of the files of S in the order of the enumeration ord
RECURSIVE LinesInOrder(_, _)
LinesInOrder(ord, S) ==
    IF ord = <<>> THEN <<>>
    ELSE (IF Head(ord) \in S THEN <<ExpectedLine(Head(ord))>> ELSE <<>>)
         \o LinesInOrder(Tail(ord), S)

\* the files the sequential walker has evaluated so far and found matching
SyncMatched == {n \in sEval : SomePredTrue(n) /\ ~HasReadFailure(n)}

\* C19: at every moment the lines the sequential walker has printed are
\* the match lines of the matching files it has evaluated so far, one
\* each, in the order of the depth-first enumeration of the tree: a line
\* is never written before the line of a file enumerated earlier.
C19_SyncOrder ==
    ~NoCriteria(cfg) => sOut = LinesInOrder(Preorder(<<RootNode>>), SyncMatched)

\* the sequential walker returned Ok having printed .hid, keep/a.txt,
\* keep/skip and the file below skip/, in that order
C19_Witness ==
    /\ spc = "returned" /\ sRes = "Ok"
    /\ sOut = <<ExpectedLine(2), ExpectedLine(4), ExpectedLine(5), ExpectedLine(LastNode)>>

\* --------------------------------------------------------------- C20
OnlyMatchLines(q) ==
    \A i \in 1 .. Len(q) : q[i] = Notice \/ \E n \in Files : q[i] = ExpectedLine(n)

\* C20: in the sequential walker a directory that cannot be listed
\* produces no output and no error return: every line printed is a match
\* line of a file, an Err return always comes from a failing read of an
\* evaluated file, nothing below the directory is visited, and when no
\* reached file has a failing read the walker returns Ok having evaluated
\* every reached file and printed every matching one, those enumerated
\* after the directory included.
C20_SyncSkipsTraversalError ==
    /\ OnlyMatchLines(sOut)
    /\ sRes \notin {"none", "Ok"} => \E f \in sEval : HasReadFailure(f)
    /\ \A d \in Unlistable : \A n \in Below(d) : n \notin sSeen \cup sEval
    /\ (spc = "returned" /\ ~NoCriteria(cfg) /\ SyncFailing = {}) =>
           /\ sRes = "Ok"
           /\ sStack = <<>>
           /\ \A n \in Nodes : ReachedSync(n) => n \in sSeen
           /\ \A n \in Files : ReachedSync(n) => n \in sEval
           /\ \A n \in Files : (ReachedSync(n) /\ SomePredTrue(n)) => EmittedSync(n)

\* the sequential walker returned Ok after it came to lock/, having
\* printed .hid, enumerated before it, and the file below skip/,
\* enumerated after it
C20_Witness ==
    /\ spc = "returned" /\ sRes = "Ok"
    /\ 6 \in sSeen /\ 6 \in Unlistable
    /\ EmittedSync(2)
    /\ EmittedSync(LastNode)

\* --------------------------------------------------------------- C21
NonFiles == Nodes \ Files

\* no timestamp of n is read and no match names n, in either walker
NeverEvaluated(n) ==
    /\ n \notin sEval
    /\ ~EmittedSync(n)
    /\ aLog[n].eval = 0
    /\ aLog[n].out = 0
    /\ ~EmittedAsync(n)
    /\ ~EmittedIn(aOut, n)

\* C21 as stated: for an entry that is not a regular file no timestamp is
\* read, and nothing at all is sent or printed, by either walker.
C21_NonFilesSilent ==
    \A n \in NonFiles :
        /\ NeverEvaluated(n)
        /\ aLog[n].err = 0

\* C21 amended: for an entry that is not a regular file no timestamp is
\* read and no match is sent or printed, by either walker; the only message
\* it can cause is the one error the parallel traversal reports for a
\* directory it cannot list.
C21_NonFilesNotEvaluated ==
    /\ \A n \in NonFiles :
           /\ NeverEvaluated(n)
           /\ aLog[n].err = (IF n \in Unlistable /\ aLog[n].seen = 1 THEN 1 ELSE 0)
    /\ OnlyMatchLines(sOut) /\ OnlyMatchLines(txSent)
    /\ sRes \notin {"none", "Ok"} => \E f \in sEval : HasReadFailure(f)

\* both walkers returned Ok with modify requested after they were given
\* the directory keep/, the entry pipe, which is neither file nor
\* directory, and the directory lock/
C21_Witness ==
    /\ cfg.modify
    /\ spc = "returned" /\ sRes = "Ok"
    /\ apc = "returned" /\ aRes = "Ok"
    /\ {3, 6, 7} \subseteq sSeen
    /\ aLog[3].seen = 1 /\ aLog[6].seen = 1 /\ aLog[7].seen = 1
    /\ Kind(7) = "other"

\* --------------------------------------------------------------- C22
\* regular files whose base name is one of the configured skip names
SkippedFiles == {n \in Files : InSkip(Name(n))}

\* the sequential walker's part of C22: such a file is rejected by
\* filter_entry, and the entries beside it are still yielded
SyncSkipsFiles ==
    \A n \in SkippedFiles :
        /\ n \notin sSeen \cup sEval
        /\ ~EmittedSync(n)
        /\ n \in sPruned =>
               \A k \in Siblings(n) : k \in sSeen \cup sPruned \cup StackNodes

\* C22: in both walkers a regular file whose base name equals a skip name
\* is not evaluated and not emitted, while the entries beside it are still
\* handed to the walker.
C22_SkipAppliesToFiles ==
    /\ SyncSkipsFiles
    /\ \A n \in SkippedFiles :
           /\ aLog[n].eval = 0
           /\ aLog[n].out = 0
           /\ ~EmittedAsync(n)
           /\ aLog[Parent(n)].seen > 0 =>
                  \A k \in Siblings(n) : k \in work \/ aLog[k].seen > 0

\* --------------------------------------------------------------- C23
\* what holds of every callback whether or not it panics: at most one
\* send per entry, and no match for a file with a failing read
AtMostOneSend ==
    /\ \A n \in Nodes : aLog[n].out + aLog[n].err <= 1
    /\ \A n \in Files : (aLog[n].eval = 1 /\ HasReadFailure(n)) => aLog[n].out = 0

\* C23: in the parallel walker each processed entry causes at most one
\* send over the two channels, and a file for which a requested timestamp
\* read fails causes the error to be sent and no match, even when an
\* earlier predicate had matched.
C23_OneSendPerEntry ==
    /\ AtMostOneSend
    /\ \A n \in Files :
           (aLog[n].eval = 1 /\ HasReadFailure(n)) => aLog[n].err = 1

\* --------------------------------------------------------------- C24
AllDisabled == ~cfg.access /\ ~cfg.create /\ ~cfg.modify

\* C24: with access, create and modify all disabled, find_matching of
\* either walker returns Ok without visiting any entry and without emitting
\* a match or an error (the only line written is the notice), and the
\* parallel walker creates no channel and starts no sink and no worker.
C24_NoCriteriaNoWalk ==
    AllDisabled =>
        /\ sStack = <<>> /\ sSeen = {} /\ sEval = {} /\ sPruned = {}
        /\ spc \in {"ready", "returned"}
        /\ (spc = "returned" => sRes = "Ok" /\ sOut = <<Notice>>)
        /\ (spc = "ready" => sRes = "none" /\ sOut = <<>>)
        /\ apc \in {"ready", "returned"}
        /\ (apc = "returned" => aRes = "Ok" /\ aOut = <<Notice>>)
        /\ (apc = "ready" => aRes = "none" /\ aOut = <<>>)
        /\ senders = [tx |-> 0, tex |-> 0]
        /\ sink = [out |-> "off", err |-> "off"]
        /\ wpc = [w \in Workers |-> "off"]
        /\ work = {}
        /\ tx = <<>> /\ tex = <<>> /\ txSent = <<>> /\ texSent = <<>>
        /\ aErr = <<>>
        /\ aLog = [n \in Nodes |-> NoLog]

C24_Witness ==
    /\ AllDisabled
    /\ spc = "returned" /\ sRes = "Ok"
    /\ apc = "returned" /\ aRes = "Ok"
    /\ aOut = <<Notice>>

\* --------------------------------------------------------------- C25
\* the entries the filter keeps below the root, the root itself left out
KeptBelowRoot(n) ==
    /\ n # RootNode
    /\ SyncFilter(Name(n), cfg.ignore_hidden, cfg.skip)
    /\ \A d \in Ancestors(n) :
           /\ Readable(d)
           /\ d # RootNode => SyncFilter(Name(d), cfg.ignore_hidden, cfg.skip)

\* C25: in the sequential walker with the hidden policy enabled the
\* hidden-name filter never prunes the root of the scan, whatever the root
\* is called: the root's non-hidden children are visited and their matches
\* are emitted.
C25_RootNeverHidden ==
    (cfg.ignore_hidden /\ ~AllDisabled /\ ~InSkip(cfg.start_dir)) =>
        /\ RootNode \notin sPruned
        /\ (spc = "returned" /\ sRes = "Ok") =>
               \A n \in Nodes : KeptBelowRoot(n) =>
                   /\ n \in sSeen
                   /\ (n \in Files /\ SomePredTrue(n) /\ ~HasReadFailure(n))
                          => EmittedSync(n)

\* the same for a root whose name does not start with a dot
RootKeptUnlessDotted ==
    cfg.start_dir[1] # "." => C25_RootNeverHidden

====
